---- MODULE Spec2Model ----
(***************************************************************************)
(* Model of src/gpgpu-25-spring/src/filter_impl.cpp: the streaming         *)
(* motion-detection filter (background model, frame differencing,          *)
(* morphological opening, hysteresis thresholding, red-channel overlay).   *)
(*                                                                         *)
(* Representation of the float motion map.  Every value the map can hold   *)
(* is 0.0f, 1.0f, 255.0f or sqrt(n) for an integer n in 0..3*255*255, and  *)
(* the code only ever compares those values with each other and with the   *)
(* whole-number thresholds 0, 4, 25, 30 and 255 (operator <, >=, >,        *)
(* std::min, std::max).  The model stores a map value v as the integer     *)
(* v*v.  On the non-negative values v |-> v*v is strictly increasing, and  *)
(* float(sqrt(n)) is strictly increasing in n over that range (adjacent    *)
(* square roots differ by more than 1/900, a float near 442 resolves       *)
(* 1/32768), so every comparison, minimum and maximum of the code has the  *)
(* same outcome on the stored squares.  Sq(c) writes a float literal c of  *)
(* the source in that representation; 0.0f and 1.0f are their own squares. *)
(*                                                                         *)
(* The frame buffer is the caller's byte array: byte offset o (0-based) of *)
(* the C buffer is buffer[o + 1].  All per-pixel arrays are sequences;     *)
(* index idx of the C vector is element idx + 1.                           *)
(***************************************************************************)
EXTENDS Integers, Sequences, FiniteSets, TLC

VARIABLES
  width, height, stride, \* geometry arguments of filter_impl (fixed for a run)
  buffer,                \* the caller-owned frame buffer, a sequence of bytes
  pixel_states,          \* std::vector<PixelState> pixel_states
  motion_mask,           \* std::vector<float> motion_mask (values stored squared)
  radius,                \* local `radius` of filter_impl / argument of the opening
  pc,                    \* position of the single thread in filter_impl
  calls,                 \* number of calls made so far, saturating at MaxCalls
  old,                   \* history: pixel_states, motion_mask and buffer at call entry
  prev_mask,             \* history: motion_mask on entry to the stage executed last
  streak                 \* history: per pixel, length of the current run of
                         \* consecutive differing calls and the estimate at its start

vars == <<width, height, stride, buffer, pixel_states, motion_mask, radius,
          pc, calls, old, prev_mask, streak>>

----------------------------------------------------------------------------
(* Bounds of the model *)

MaxCalls == 3

----------------------------------------------------------------------------
(* Arithmetic helpers *)

Min(a, b) == IF a <= b THEN a ELSE b
Max(a, b) == IF a >= b THEN a ELSE b
SetMin(S) == CHOOSE m \in S : \A n \in S : m <= n
SetMax(S) == CHOOSE m \in S : \A n \in S : m >= n

\* a float literal of the source in the squared representation of the map
Sq(c) == c * c

\* conversion to uint8_t of a value that is a whole number (the stored
\* estimates are always copies of bytes, so no fraction is ever cut)
U8(v) == v % 256

----------------------------------------------------------------------------
(* struct rgb, struct PixelState, buffer addressing *)

\* rgb& pixel = ((rgb*)(buffer + y * stride))[x]
Pixel(buf, strd, x, y) ==
  LET o == y * strd + 3 * x
  IN  [r |-> buf[o + 1], g |-> buf[o + 2], b |-> buf[o + 3]]

\* colorDistance, in the squared representation (the radicand of the sqrt)
colorDistance(p1, p2) ==
  (p1.r - p2.r) * (p1.r - p2.r) +
  (p1.g - p2.g) * (p1.g - p2.g) +
  (p1.b - p2.b) * (p1.b - p2.b)

XOf(i, w) == (i - 1) % w
YOf(i, w) == (i - 1) \div w

----------------------------------------------------------------------------
(* applyMorphologicalOpening *)

\* the offsets <<dx, dy>> with dx*dx + dy*dy <= radius*radius
Disk(rad) ==
  {d \in (-rad..rad) \X (-rad..rad) : d[1] * d[1] + d[2] * d[2] <= rad * rad}

\* the pixels visited by the two loops `for y = radius; y < height - radius`
Interior(x, y, w, h, rad) ==
  x >= rad /\ x < w - rad /\ y >= rad /\ y < h - rad

\* float min_val = 255.0f
ErodeSeed == Sq(255)

\* float max_val = 0.0f
DilateSeed == 0

\* Erode with the result written to a zeroed map instead of a copy
Erode_zero_border(temp_mask, w, h, rad) ==
  [i \in 1..Len(temp_mask) |->
     LET x == XOf(i, w)
         y == YOf(i, w)
     IN  IF Interior(x, y, w, h, rad)
         THEN SetMin({Sq(255)} \cup
                {temp_mask[(y + d[2]) * w + (x + d[1]) + 1] : d \in Disk(rad)})
         ELSE 0]

\* the erosion pass: temp_mask is the snapshot, the result is motion_mask
Erode(temp_mask, w, h, rad) ==
  [i \in 1..Len(temp_mask) |->
     LET x == XOf(i, w)
         y == YOf(i, w)
     IN  IF Interior(x, y, w, h, rad)
         THEN SetMin({ErodeSeed} \cup
                {temp_mask[(y + d[2]) * w + (x + d[1]) + 1] : d \in Disk(rad)})
         ELSE temp_mask[i]]

\* the dilation pass, reading the snapshot taken after the erosion
Dilate(temp_mask, w, h, rad) ==
  [i \in 1..Len(temp_mask) |->
     LET x == XOf(i, w)
         y == YOf(i, w)
     IN  IF Interior(x, y, w, h, rad)
         THEN SetMax({DilateSeed} \cup
                {temp_mask[(y + d[2]) * w + (x + d[1]) + 1] : d \in Disk(rad)})
         ELSE temp_mask[i]]

applyMorphologicalOpening(mask, w, h, rad) ==
  Dilate(Erode(mask, w, h, rad), w, h, rad)

----------------------------------------------------------------------------
(* applyHysteresisThresholding: one in-place sweep, row by row *)

\* HystValue with strong pixels written as 255.0f instead of 1.0f
HystValue_255(mask, w, h, low_t, high_t, i) ==
  LET x == XOf(i, w)
      y == YOf(i, w)
      value == mask[i]
  IN  IF value >= high_t THEN Sq(255)
      ELSE IF value < low_t THEN 0
      ELSE IF \E dy \in -1..1, dx \in -1..1 :
                LET ny == y + dy
                    nx == x + dx
                IN  /\ ny >= 0 /\ ny < h /\ nx >= 0 /\ nx < w
                    /\ mask[ny * w + nx + 1] >= high_t
           THEN Sq(255)
           ELSE 0

\* the value written to pixel i, read from the map as it is at that moment
HystValue(mask, w, h, low_t, high_t, i) ==
  LET x == XOf(i, w)
      y == YOf(i, w)
      value == mask[i]
  IN  IF value >= high_t THEN 1
      ELSE IF value < low_t THEN 0
      ELSE IF \E dy \in -1..1, dx \in -1..1 :
                LET ny == y + dy
                    nx == x + dx
                IN  /\ ny >= 0 /\ ny < h /\ nx >= 0 /\ nx < w
                    /\ mask[ny * w + nx + 1] >= high_t
           THEN 1
           ELSE 0

RECURSIVE HystSweep(_, _, _, _, _, _)
HystSweep(mask, w, h, low_t, high_t, i) ==
  IF i > w * h
  THEN mask
  ELSE HystSweep([mask EXCEPT ![i] = HystValue(mask, w, h, low_t, high_t, i)],
                 w, h, low_t, high_t, i + 1)

applyHysteresisThresholding(mask, w, h, low_t, high_t) ==
  HystSweep(mask, w, h, low_t, high_t, 1)

----------------------------------------------------------------------------
(* filter_impl *)

\* if (distance < 25.0f)
NoiseThreshold == Sq(25)

\* if (state.time > 100)
AdaptAfter == 100

\* low_thresh lowered to 1.0f
low_thresh_one == Sq(1)

\* float low_thresh = 4.0f; float high_thresh = 30.0f;
low_thresh == Sq(4)
high_thresh == Sq(30)

\* uint8_t(0.5f * 255): 127.5 cut to 127
Highlight == 127

\* int radius = std::max(3, std::min(width, height) / 100)
RadiusOf(w, h) == Max(3, Min(w, h) \div 100)

\* SeedStates reading the rows as if they were packed (stride = 3 * width)
SeedStates_packed(buf, w, h, strd) ==
  [i \in 1..(w * h) |->
     LET pixel == Pixel(buf, 3 * w, XOf(i, w), YOf(i, w))
     IN  [bg_r |-> pixel.r, bg_g |-> pixel.g, bg_b |-> pixel.b, time |-> 0]]

\* the first-frame branch: resize, zero, then seed from the frame
SeedStates(buf, w, h, strd) ==
  [i \in 1..(w * h) |->
     LET pixel == Pixel(buf, strd, XOf(i, w), YOf(i, w))
     IN  [bg_r |-> pixel.r, bg_g |-> pixel.g, bg_b |-> pixel.b, time |-> 0]]

\* motion_mask.resize(width * height, 0.0f) when the vector is empty
Allocated(mask, w, h) ==
  IF mask = <<>> THEN [i \in 1..(w * h) |-> 0] ELSE mask

\* the distance of a frame pixel to the stored estimate, cut to 8 bits
DistanceTo(state, pixel) ==
  colorDistance(pixel,
                [r |-> U8(state.bg_r), g |-> U8(state.bg_g), b |-> U8(state.bg_b)])

\* StateStep adapting one call early (>= in place of >)
StateStep_ge(state, pixel) ==
  IF colorDistance(pixel, [r |-> U8(state.bg_r), g |-> U8(state.bg_g),
                           b |-> U8(state.bg_b)]) < Sq(25)
  THEN [state EXCEPT !.time = 0]
  ELSE IF state.time + 1 >= 100
       THEN [bg_r |-> pixel.r, bg_g |-> pixel.g, bg_b |-> pixel.b, time |-> 0]
       ELSE [state EXCEPT !.time = @ + 1]

\* StateStep testing the counter before it is incremented
StateStep_late(state, pixel) ==
  IF colorDistance(pixel, [r |-> U8(state.bg_r), g |-> U8(state.bg_g),
                           b |-> U8(state.bg_b)]) < Sq(25)
  THEN [state EXCEPT !.time = 0]
  ELSE IF state.time > 100
       THEN [bg_r |-> pixel.r, bg_g |-> pixel.g, bg_b |-> pixel.b, time |-> 0]
       ELSE [state EXCEPT !.time = @ + 1]

\* the body of the per-pixel loop, on the pixel's state
StateStep(state, pixel) ==
  IF DistanceTo(state, pixel) < NoiseThreshold
  THEN [state EXCEPT !.time = 0]
  ELSE IF state.time + 1 > AdaptAfter
       THEN [bg_r |-> pixel.r, bg_g |-> pixel.g, bg_b |-> pixel.b, time |-> 0]
       ELSE [state EXCEPT !.time = @ + 1]

\* the body of the per-pixel loop, on the pixel's map entry
MaskStep(state, pixel, m) ==
  IF DistanceTo(state, pixel) < NoiseThreshold THEN m ELSE DistanceTo(state, pixel)

DiffStates(ps, buf, w, h, strd) ==
  [i \in 1..(w * h) |-> StateStep(ps[i], Pixel(buf, strd, XOf(i, w), YOf(i, w)))]

DiffMask(ps, mask, buf, w, h, strd) ==
  [i \in 1..(w * h) |->
     MaskStep(ps[i], Pixel(buf, strd, XOf(i, w), YOf(i, w)), Allocated(mask, w, h)[i])]

\* Boost without the std::min: the sum wraps in the byte
Boost_wrap(red) == (red + 127) % 256

\* lineptr[x].r = std::min(255, lineptr[x].r + uint8_t(0.5f * 255))
Boost(red) == U8(Min(255, red + Highlight))

\* the last loop: the red byte of every pixel whose mask entry is > 0.0f
Composite(buf, mask, w, h, strd) ==
  [o \in 1..Len(buf) |->
     LET y == (o - 1) \div strd
         k == (o - 1) % strd
     IN  IF k < 3 * w /\ y < h /\ k % 3 = 0 /\ mask[y * w + (k \div 3) + 1] > 0
         THEN Boost(buf[o])
         ELSE buf[o]]

\* the running branch of filter_impl as a whole (lines 117-161): the state
\* it leaves, from the state and the frame it is entered with
RunningCall(ps, mask, buf, w, h, strd) ==
  LET raw == DiffMask(ps, mask, buf, w, h, strd)
      opened == applyMorphologicalOpening(raw, w, h, RadiusOf(w, h))
      final == applyHysteresisThresholding(opened, w, h, low_thresh, high_thresh)
  IN  [ps |-> DiffStates(ps, buf, w, h, strd),
       mask |-> final,
       buf |-> Composite(buf, final, w, h, strd)]

----------------------------------------------------------------------------
(* Inputs: geometries, colours and frames handed to filter_impl *)

\* <<width, height, stride>>; a stride above 3 * width is row padding
Geoms == {<<1, 1, 3>>, <<2, 2, 8>>, <<7, 7, 22>>}

ColA == [r |-> 10, g |-> 20, b |-> 30]
ColN == [r |-> 20, g |-> 35, b |-> 40]     \* 20.6 from ColA
ColW == [r |-> 36, g |-> 20, b |-> 30]     \* 26 from ColA
ColH == [r |-> 250, g |-> 240, b |-> 220]  \* 377.0 from ColA

Palette == {ColA, ColN, ColW, ColH}

PadByte == 170

\* a rectangle <<x0, x1, y0, y1>> holds the pixels x0 <= x < x1, y0 <= y < y1
InRect(R, x, y) == R[1] <= x /\ x < R[2] /\ R[3] <= y /\ y < R[4]

\* the whole frame, its middle pixel, its left part
Rects(w, h) ==
  {<<0, w, 0, h>>,
   <<w \div 2, w \div 2 + 1, h \div 2, h \div 2 + 1>>,
   <<0, w \div 2, 0, h>>}

AllRects(w, h) ==
  {R \in (0..w) \X (0..w) \X (0..h) \X (0..h) : R[1] < R[2] /\ R[3] < R[4]}

\* the frame of colour c0 with the rectangle R painted in colour c1
MkFrame(w, h, strd, c0, c1, R) ==
  [o \in 1..(h * strd) |->
     LET y == (o - 1) \div strd
         k == (o - 1) % strd
         c == IF InRect(R, k \div 3, y) THEN c1 ELSE c0
     IN  IF k >= 3 * w THEN PadByte
         ELSE IF k % 3 = 0 THEN c.r
         ELSE IF k % 3 = 1 THEN c.g
         ELSE c.b]

Frames(w, h, strd) ==
  {MkFrame(w, h, strd, ColA, c, R) : c \in Palette, R \in Rects(w, h)}

\* the map of value v0 with the rectangle R set to v1
MkMap(w, h, v0, v1, R) ==
  [i \in 1..(w * h) |-> IF InRect(R, XOf(i, w), YOf(i, w)) THEN v1 ELSE v0]

BgOf(state) == <<state.bg_r, state.bg_g, state.bg_b>>

\* history of one pixel over one running call: the run of differing calls
\* grows, starts again after its 101st call, and ends on a matching frame
StreakStep(s, state, pixel) ==
  IF DistanceTo(state, pixel) < NoiseThreshold
  THEN [n |-> 0, bg |-> BgOf(state)]
  ELSE IF s.n = 0 \/ s.n = 101
       THEN [n |-> 1, bg |-> BgOf(state)]
       ELSE [n |-> s.n + 1, bg |-> s.bg]

----------------------------------------------------------------------------
(* The filter as a state machine *)

Init ==
  /\ \E gm \in Geoms : width = gm[1] /\ height = gm[2] /\ stride = gm[3]
  /\ buffer = <<>>
  /\ pixel_states = <<>>
  /\ motion_mask = <<>>
  /\ radius = 0
  /\ pc = "idle"
  /\ calls = 0
  /\ old = [ps |-> <<>>, mask |-> <<>>, buf |-> <<>>]
  /\ prev_mask = <<>>
  /\ streak = <<>>

\* the host hands frame f to filter_impl
Call(f) ==
  /\ pc = "idle"
  /\ buffer' = f
  /\ old' = [ps |-> pixel_states, mask |-> motion_mask, buf |-> f]
  /\ calls' = IF calls < MaxCalls THEN calls + 1 ELSE calls
  /\ pc' = "entry"
  /\ UNCHANGED <<width, height, stride, pixel_states, motion_mask, radius,
                 prev_mask, streak>>

\* lines 96-115: the first frame seeds the background model and returns
ColdStart ==
  /\ pc = "entry"
  /\ pixel_states = <<>>
  /\ pixel_states' = SeedStates(buffer, width, height, stride)
  /\ streak' = [i \in 1..(width * height) |->
                  [n |-> 0, bg |-> BgOf(SeedStates(buffer, width, height, stride)[i])]]
  /\ pc' = "idle"
  /\ UNCHANGED <<width, height, stride, buffer, motion_mask, radius, calls,
                 old, prev_mask>>

\* lines 117-146: allocate the map, run the per-pixel loop, pick the radius
DifferenceDetector ==
  /\ pc = "entry"
  /\ pixel_states # <<>>
  /\ motion_mask' = DiffMask(pixel_states, motion_mask, buffer, width, height, stride)
  /\ pixel_states' = DiffStates(pixel_states, buffer, width, height, stride)
  /\ radius' = RadiusOf(width, height)
  /\ prev_mask' = Allocated(motion_mask, width, height)
  /\ streak' = [i \in 1..(width * height) |->
                  StreakStep(streak[i], pixel_states[i],
                             Pixel(buffer, stride, XOf(i, width), YOf(i, width)))]
  /\ pc' = "open"
  /\ UNCHANGED <<width, height, stride, buffer, calls, old>>

\* line 147
MorphologicalOpening ==
  /\ pc = "open"
  /\ motion_mask' = applyMorphologicalOpening(motion_mask, width, height, radius)
  /\ prev_mask' = motion_mask
  /\ pc' = "hyst"
  /\ UNCHANGED <<width, height, stride, buffer, pixel_states, radius, calls,
                 old, streak>>

\* lines 149-151
HysteresisThresholding ==
  /\ pc = "hyst"
  /\ motion_mask' =
       applyHysteresisThresholding(motion_mask, width, height, low_thresh, high_thresh)
  /\ prev_mask' = motion_mask
  /\ pc' = "comp"
  /\ UNCHANGED <<width, height, stride, buffer, pixel_states, radius, calls,
                 old, streak>>

\* lines 153-161, then the call returns
Compositor ==
  /\ pc = "comp"
  /\ buffer' = Composite(buffer, motion_mask, width, height, stride)
  /\ pc' = "idle"
  /\ UNCHANGED <<width, height, stride, pixel_states, motion_mask, radius,
                 calls, old, prev_mask, streak>>

\* a call with any frame of the family, while the call budget lasts
BoundedCall ==
  /\ pc = "idle"
  /\ calls < MaxCalls
  /\ \E f \in Frames(width, height, stride) : Call(f)

Next ==
  \/ BoundedCall
  \/ ColdStart
  \/ DifferenceDetector
  \/ MorphologicalOpening
  \/ HysteresisThresholding
  \/ Compositor

Spec == Init /\ [][Next]_vars

----------------------------------------------------------------------------
(* The long run: one pixel, any number of calls (the counter reaches 100) *)

InitAdapt ==
  /\ width = 1 /\ height = 1 /\ stride = 3
  /\ buffer = <<>>
  /\ pixel_states = <<>>
  /\ motion_mask = <<>>
  /\ radius = 0
  /\ pc = "idle"
  /\ calls = 0
  /\ old = [ps |-> <<>>, mask |-> <<>>, buf |-> <<>>]
  /\ prev_mask = <<>>
  /\ streak = <<>>

AnyCall ==
  /\ pc = "idle"
  /\ \E f \in Frames(width, height, stride) : Call(f)

NextAdapt ==
  \/ AnyCall
  \/ ColdStart
  \/ DifferenceDetector
  \/ MorphologicalOpening
  \/ HysteresisThresholding
  \/ Compositor

SpecAdapt == InitAdapt /\ [][NextAdapt]_vars

----------------------------------------------------------------------------
(* The two map transformers on their own: any map of a bounded family is   *)
(* handed to the stage, inside a running call on a still scene             *)

\* the state of a running call on an all-black still scene, at position p,
\* with map m
InCall(gm, rad, m, p) ==
  /\ width = gm[1] /\ height = gm[2] /\ stride = gm[3]
  /\ buffer = [o \in 1..(gm[2] * gm[3]) |-> 0]
  /\ pixel_states =
       [i \in 1..(gm[1] * gm[2]) |-> [bg_r |-> 0, bg_g |-> 0, bg_b |-> 0, time |-> 0]]
  /\ motion_mask = m
  /\ radius = rad
  /\ pc = p
  /\ calls = 2
  /\ old = [ps |-> [i \in 1..(gm[1] * gm[2]) |->
                      [bg_r |-> 0, bg_g |-> 0, bg_b |-> 0, time |-> 0]],
            mask |-> <<>>,
            buf |-> [o \in 1..(gm[2] * gm[3]) |-> 0]]
  /\ prev_mask = m
  /\ streak = [i \in 1..(gm[1] * gm[2]) |-> [n |-> 0, bg |-> <<0, 0, 0>>]]

\* <<width, height, stride, radius>>: maps with no, one and several interior
\* pixels, under the radius filter_impl passes (3) and under smaller ones
OpenCases ==
  {<<5, 5, 15, 1>>, <<5, 5, 15, 2>>, <<6, 7, 18, 3>>, <<7, 7, 21, 3>>, <<8, 7, 24, 3>>}

\* map values: 0, 26, 264.6 and 300 (the last two above 255)
OpenVals == {0, Sq(26), 70000, Sq(300)}

InitOpen ==
  \E oc \in OpenCases :
    \E v0 \in OpenVals, v1 \in OpenVals, R \in AllRects(oc[1], oc[2]) :
      /\ v0 # v1
      /\ InCall(<<oc[1], oc[2], oc[3]>>, oc[4], MkMap(oc[1], oc[2], v0, v1, R), "open")

SpecOpen == InitOpen /\ [][MorphologicalOpening]_vars

HystGeoms == {<<2, 2, 6>>, <<3, 1, 9>>, <<1, 3, 3>>, <<3, 3, 9>>}

\* map values around the two thresholds: 0, 3.87, 4, 29.98, 30
HystVals == {0, 15, Sq(4), 899, Sq(30)}

\* one absent, one weak and one strong value
CoarseVals == {0, Sq(26), Sq(30)}

HystMaps(w, h) ==
  IF w * h <= 4 THEN [1..(w * h) -> HystVals] ELSE [1..(w * h) -> CoarseVals]

InitHyst ==
  \E gm \in HystGeoms :
    \E m \in HystMaps(gm[1], gm[2]) :
      InCall(gm, RadiusOf(gm[1], gm[2]), m, "hyst")

SpecHyst == InitHyst /\ [][HysteresisThresholding]_vars

----------------------------------------------------------------------------
(* Vocabulary of the properties *)

Pixels == 1..(width * height)

\* the colour of pixel i in a frame buffer of the run's geometry
ColourAt(buf, i) == Pixel(buf, stride, XOf(i, width), YOf(i, width))

\* squared Euclidean distance between a stored estimate and a colour
Dist2(state, c) ==
  (c.r - state.bg_r) * (c.r - state.bg_r) +
  (c.g - state.bg_g) * (c.g - state.bg_g) +
  (c.b - state.bg_b) * (c.b - state.bg_b)

\* the distance of pixel i to its estimate on entry to the current call
EntryDist2(i) == Dist2(old.ps[i], ColourAt(old.buf, i))

FirstCallDone == pc = "idle" /\ calls >= 1 /\ old.ps = <<>>
RunningCallDone == pc = "idle" /\ old.ps # <<>>

\* 0-based offset of the red byte of pixel i
RedOffset(i) == YOf(i, width) * stride + 3 * XOf(i, width)

----------------------------------------------------------------------------
(* C1: cold start.  After the first call every pixel's estimate is that     *)
(* frame's colour at the same position with counter 0, no byte of the      *)
(* frame buffer has changed, and the motion map is still unallocated.       *)

C1_ColdStart ==
  FirstCallDone =>
    /\ Len(pixel_states) = width * height
    /\ \A i \in Pixels :
         /\ BgOf(pixel_states[i]) =
              <<ColourAt(old.buf, i).r, ColourAt(old.buf, i).g, ColourAt(old.buf, i).b>>
         /\ pixel_states[i].time = 0
    /\ buffer = old.buf
    /\ motion_mask = <<>>

\* a padded multi-row frame with two different colours has been seeded
C1_Witness ==
  /\ FirstCallDone
  /\ width = 2 /\ stride > 3 * width
  /\ \E i \in Pixels, j \in Pixels : BgOf(pixel_states[i]) # BgOf(pixel_states[j])

----------------------------------------------------------------------------
(* C3: noise insensitivity.  A running call in which every pixel is at     *)
(* distance < 25 from its estimate ends with an all-zero motion map, all   *)
(* counters 0, the estimates unchanged and the frame buffer unmodified.    *)

AllNoise == \A i \in Pixels : EntryDist2(i) < 625

C3_NoiseInsensitive ==
  (RunningCallDone /\ AllNoise) =>
    /\ \A i \in Pixels : motion_mask[i] = 0
    /\ \A i \in Pixels : pixel_states[i].time = 0
    /\ \A i \in Pixels : BgOf(pixel_states[i]) = BgOf(old.ps[i])
    /\ buffer = old.buf

\* an all-noise frame that differs from the estimate, processed while the
\* map still held motion from the frame before, on a map with an interior
C3_Witness ==
  /\ RunningCallDone /\ AllNoise
  /\ width = 7
  /\ old.mask # <<>>
  /\ \E i \in Pixels : old.mask[i] = 1 /\ Interior(XOf(i, width), YOf(i, width), width, height, radius)
  /\ \E i \in Pixels : EntryDist2(i) > 0

----------------------------------------------------------------------------
(* C4: adaptation.  Over a run of consecutive running calls in which the   *)
(* pixel is at distance >= 25, started with counter 0: after the k-th call *)
(* (k <= 100) the counter is k and the estimate is the one the run started *)
(* with; the 101st call replaces the estimate by that frame's colour and   *)
(* resets the counter.                                                     *)

C4_Adaptation ==
  \A i \in 1..Len(streak) :
    /\ streak[i].n \in 1..100 =>
         /\ pixel_states[i].time = streak[i].n
         /\ BgOf(pixel_states[i]) = streak[i].bg
    /\ (streak[i].n = 101 /\ pc # "entry") =>
         /\ pixel_states[i].time = 0
         /\ BgOf(pixel_states[i]) =
              <<ColourAt(old.buf, i).r, ColourAt(old.buf, i).g, ColourAt(old.buf, i).b>>

\* the 101st differing call has just replaced the estimate by another colour
C4_Witness ==
  /\ pc = "idle"
  /\ \E i \in 1..Len(streak) :
       streak[i].n = 101 /\ BgOf(pixel_states[i]) # streak[i].bg

----------------------------------------------------------------------------
(* C5: compositor.  At the end of every running call the red byte of a     *)
(* pixel with non-zero mask is min(255, old red + 127), the red byte of a  *)
(* pixel with zero mask is unchanged, and green and blue are unchanged.    *)

C5_Compositor ==
  RunningCallDone =>
    \A i \in Pixels :
      LET o == RedOffset(i)
      IN  /\ motion_mask[i] # 0 =>
               buffer[o + 1] = (IF old.buf[o + 1] + 127 > 255 THEN 255
                                ELSE old.buf[o + 1] + 127)
          /\ motion_mask[i] = 0 => buffer[o + 1] = old.buf[o + 1]
          /\ buffer[o + 2] = old.buf[o + 2]
          /\ buffer[o + 3] = old.buf[o + 3]

\* one highlighted pixel saturated, another did not, a third was left alone
C5_Witness ==
  /\ RunningCallDone
  /\ \E i \in Pixels, j \in Pixels, k \in Pixels :
       /\ motion_mask[i] # 0 /\ old.buf[RedOffset(i) + 1] > 128
       /\ motion_mask[j] # 0 /\ old.buf[RedOffset(j) + 1] < 128
       /\ old.buf[RedOffset(j) + 2] > 0
       /\ motion_mask[k] = 0

----------------------------------------------------------------------------
(* C6: no mask is retained.  From the same estimates and the same frame,   *)
(* a running call ends in the same motion map, estimates and frame buffer  *)
(* whatever 0/1 map the previous frame left behind.                        *)

\* every 0/1 map on up to four pixels, the maps of the rectangle family above
StaleMasks(w, h) ==
  IF w * h <= 4
  THEN [1..(w * h) -> {0, 1}]
  ELSE {MkMap(w, h, a, 1 - a, R) : a \in {0, 1}, R \in Rects(w, h)}

C6_NoMaskRetained ==
  /\ (pc = "entry" /\ pixel_states # <<>>) =>
       \A m \in StaleMasks(width, height) :
         RunningCall(pixel_states, m, buffer, width, height, stride) =
           RunningCall(pixel_states, motion_mask, buffer, width, height, stride)
  /\ RunningCallDone =>
       [ps |-> pixel_states, mask |-> motion_mask, buf |-> buffer] =
         RunningCall(old.ps, old.mask, old.buf, width, height, stride)

\* a call ended with motion beside a matching pixel whose stale entry was 1
C6_Witness ==
  /\ RunningCallDone
  /\ old.mask # <<>>
  /\ \E i \in Pixels, j \in Pixels :
       /\ EntryDist2(i) < 625 /\ old.mask[i] = 1 /\ motion_mask[i] = 0
       /\ motion_mask[j] = 1

----------------------------------------------------------------------------
(* C10: state between calls.  After every call each counter is in 0..100;  *)
(* once a running call has completed every map entry is exactly 0 or 1.    *)

C10_BetweenCalls ==
  pc = "idle" =>
    /\ \A i \in 1..Len(pixel_states) : pixel_states[i].time \in 0..100
    /\ \A i \in 1..Len(motion_mask) : motion_mask[i] \in {0, 1}
    /\ RunningCallDone => Len(motion_mask) = width * height

\* the counter stands at its largest value and the map holds a 1
C10_Witness ==
  /\ RunningCallDone
  /\ \E i \in Pixels : pixel_states[i].time = 100 /\ motion_mask[i] = 1

----------------------------------------------------------------------------
(* C7: the map after the difference loop.  Right after the per-pixel loop  *)
(* of a running call an entry is non-zero only if the pixel's distance on  *)
(* this frame was >= 25, and then it is that distance; every pixel with    *)
(* distance < 25 has entry 0.                                              *)

C7_MapAfterDifference ==
  pc = "open" =>
    \A i \in Pixels :
      /\ EntryDist2(i) < 625 => motion_mask[i] = 0
      /\ motion_mask[i] # 0 => (EntryDist2(i) >= 625 /\ motion_mask[i] = EntryDist2(i))

----------------------------------------------------------------------------
(* The opening of the specification: minimum over the disk, then maximum   *)
(* over the disk of the eroded map, on interior pixels only                *)

DiskValues(m, i, w, rad) ==
  {m[(YOf(i, w) + d[2]) * w + (XOf(i, w) + d[1]) + 1] : d \in Disk(rad)}

IsInterior(i) == Interior(XOf(i, width), YOf(i, width), width, height, radius)

RefErode(m) ==
  [i \in 1..Len(m) |->
     IF IsInterior(i) THEN SetMin(DiskValues(m, i, width, radius)) ELSE m[i]]

RefDilate(m) ==
  [i \in 1..Len(m) |->
     IF IsInterior(i) THEN SetMax(DiskValues(m, i, width, radius)) ELSE m[i]]

OpeningDone == pc = "hyst"

(* C8: the opening equals the reference operator.  On every interior pixel *)
(* the result of applyMorphologicalOpening is the erosion by minimum       *)
(* followed by the dilation by maximum, with no other clamping, for every  *)
(* non-negative map, values above 255 included.                            *)

C8_OpeningIsReference ==
  OpeningDone =>
    \A i \in Pixels :
      IsInterior(i) =>
        /\ Erode(prev_mask, width, height, radius)[i] = RefErode(prev_mask)[i]
        /\ motion_mask[i] = RefDilate(RefErode(prev_mask))[i]

(* C9: the border frame of the opening.  No pixel within the radius of an  *)
(* edge is changed by the erosion or by the dilation; a map with           *)
(* width <= 2r or height <= 2r is left unchanged as a whole.               *)

C9_BorderUntouched ==
  OpeningDone =>
    /\ \A i \in Pixels :
         ~IsInterior(i) =>
           /\ Erode(prev_mask, width, height, radius)[i] = prev_mask[i]
           /\ motion_mask[i] = prev_mask[i]
    /\ (width <= 2 * radius \/ height <= 2 * radius) => motion_mask = prev_mask

\* the opening changed an interior pixel next to non-zero border pixels, on
\* the radius filter_impl uses
C9_Witness ==
  /\ OpeningDone
  /\ radius = 3
  /\ \E i \in Pixels : IsInterior(i) /\ motion_mask[i] # prev_mask[i]
  /\ \E i \in Pixels : ~IsInterior(i) /\ motion_mask[i] > Sq(255)

----------------------------------------------------------------------------
(* C2: hysteresis promotion uses the pre-sweep map.  A weak pixel (input   *)
(* value v with low <= v < high) ends at 1 exactly when one of its         *)
(* in-bounds 8 neighbours had an input value >= high, wherever that        *)
(* neighbour lies; otherwise it ends at 0.                                 *)

StrongNeighbourBefore(i) ==
  \E dy \in -1..1, dx \in -1..1 :
    /\ <<dx, dy>> # <<0, 0>>
    /\ XOf(i, width) + dx \in 0..(width - 1)
    /\ YOf(i, width) + dy \in 0..(height - 1)
    /\ prev_mask[(YOf(i, width) + dy) * width + XOf(i, width) + dx + 1] >= 900

C2_PromotionFromPreSweep ==
  pc = "comp" =>
    \A i \in Pixels :
      (prev_mask[i] >= 16 /\ prev_mask[i] < 900) =>
        motion_mask[i] = (IF StrongNeighbourBefore(i) THEN 1 ELSE 0)

====
